---------------------------- MODULE Spec2Model ----------------------------
(***************************************************************************)
(* A model of ProGrader (src/main.py): the template store (one JSON file   *)
(* per template under TEMPLATE_DIR), the suggestion engine (mock and       *)
(* OpenRouter strategies) and the Streamlit session flow that renders the  *)
(* stored suggestions.                                                     *)
(*                                                                         *)
(* Three specifications share the variables:                               *)
(*   SpecStore    save_template / load_template / delete_template /        *)
(*                list_templates on the template directory                 *)
(*   SpecEngine   one call of get_ai_suggestions, the remote strategy      *)
(*                stepping request by request                              *)
(*   SpecSession  reruns of the Streamlit script, one per user interaction *)
(***************************************************************************)
EXTENDS Integers, Sequences, FiniteSets, TLC

VARIABLES
    files,                       \* TEMPLATE_DIR: file name -> JSON text (token sequence)
    lastOp,                      \* history: per name, the most recent save/delete call
    ret,                         \* outcome of the most recent store call
    USE_REAL_AI,                 \* sidebar checkbox (line 13)
    DEEPSEEK_API_KEY,            \* "" when unset (line 16)
    task_template,               \* the template handed to get_ai_suggestions
    pc,                          \* position inside get_ai_suggestions
    qi,                          \* index of the question the loop is at
    suggestions,                 \* the dict being built: sequence of <<key, value>>
    calls,                       \* log of requests.post: "start"/"end" events
    responses,                   \* what each finished request produced
    picks,                       \* what random.choice returned, per question handled
    st_error,                    \* st.error was shown
    outcome,                     \* how the call ended: returned value or exception
    session_state,               \* st.session_state: "ai_suggestions" present or not
    selected_template_for_task,  \* selectbox of Step 3 (line 197)
    guideline_text,              \* Step 1 result (line 133-143)
    user_text,                   \* Step 3 text input (line 195)
    rendered                     \* what Step 4 drew in the last run of the script

storeVars == <<files, lastOp, ret>>
engineVars == <<USE_REAL_AI, DEEPSEEK_API_KEY, task_template, pc, qi, suggestions,
                calls, responses, picks, st_error, outcome>>
sessionVars == <<session_state, selected_template_for_task, guideline_text,
                 user_text, rendered>>
vars == <<files, lastOp, ret, USE_REAL_AI, DEEPSEEK_API_KEY, task_template, pc, qi,
          suggestions, calls, responses, picks, st_error, outcome, session_state,
          selected_template_for_task, guideline_text, user_text, rendered>>

(***************************************************************************)
(* Bounds                                                                  *)
(***************************************************************************)
\* questions per template in the engine
MaxQuestions == 2
\* questions per template written to the store
MaxStoreQuestions == 1

(***************************************************************************)
(* Strings.  File names and typed-in texts are sequences of characters so  *)
(* that endswith, replace, split and strip are computed, not assumed.      *)
(***************************************************************************)
Whitespace == {" ", "\n"}

\* str.endswith
EndsWith(s, suffix) ==
    /\ Len(s) >= Len(suffix)
    /\ SubSeq(s, Len(s) - Len(suffix) + 1, Len(s)) = suffix

\* str.startswith
StartsWith(s, prefix) ==
    /\ Len(s) >= Len(prefix)
    /\ SubSeq(s, 1, Len(prefix)) = prefix

RECURSIVE Replace(_, _, _)
\* str.replace(old, new): every non-overlapping occurrence, left to right
Replace(s, old, new) ==
    IF s = <<>> THEN <<>>
    ELSE IF StartsWith(s, old)
         THEN new \o Replace(SubSeq(s, Len(old) + 1, Len(s)), old, new)
         ELSE <<Head(s)>> \o Replace(Tail(s), old, new)

RECURSIVE LStrip(_)
LStrip(s) ==
    IF s # <<>> /\ Head(s) \in Whitespace THEN LStrip(Tail(s)) ELSE s

RECURSIVE RStrip(_)
RStrip(s) ==
    IF s # <<>> /\ s[Len(s)] \in Whitespace THEN RStrip(SubSeq(s, 1, Len(s) - 1)) ELSE s

\* str.strip()
Strip(s) == RStrip(LStrip(s))

RECURSIVE Join(_)
\* the string a sequence of pieces spells
Join(s) == IF s = <<>> THEN "" ELSE Head(s) \o Join(Tail(s))

RECURSIVE Split(_, _, _)
\* str.split(sep) for a one-character sep: cur is the field being read
Split(s, sep, cur) ==
    IF s = <<>> THEN <<cur>>
    ELSE IF Head(s) = sep
         THEN <<cur>> \o Split(Tail(s), sep, <<>>)
         ELSE Split(Tail(s), sep, Append(cur, Head(s)))

RECURSIVE SeqFilterMap(_)
\* [opt.strip() for opt in options if opt.strip()]
SeqFilterMap(fields) ==
    IF fields = <<>> THEN <<>>
    ELSE LET opt == Strip(Head(fields))
         IN  IF opt # <<>> THEN <<Join(opt)>> \o SeqFilterMap(Tail(fields))
             ELSE SeqFilterMap(Tail(fields))

\* line 159-162: the options of a question from the text area's content
ParseOptions(text) == SeqFilterMap(Split(text, ",", <<>>))

(***************************************************************************)
(* Inputs                                                                  *)
(***************************************************************************)
\* what the user types in "Options for Q.. (comma-separated)"
OptionInputs ==
    { <<>>,
      <<" ", ",", " ">>,
      <<"Yes">>,
      <<"Yes", ",", " ", "No">>,
      <<"No", ",", "Yes", ",">> }

OptionLists == { ParseOptions(t) : t \in OptionInputs }

QuestionTexts == {"Q1", "Q2"}

Questions == [question : QuestionTexts, options : OptionLists]

SeqsUpTo(S, n) == UNION { [1..k -> S] : k \in 0..n }

Templates == SeqsUpTo(Questions, MaxQuestions)

StoreTemplates == SeqsUpTo(Questions, MaxStoreQuestions)

DotJson == <<".", "j", "s", "o", "n">>

\* template names the user types; none contains a path separator
Names == { <<"a">>, <<"a">> \o DotJson }

(***************************************************************************)
(* JSON text as a token sequence: punctuation and string literals.         *)
(* Whitespace (indent=2) carries no information and is left out.           *)
(***************************************************************************)
P(c) == <<"punct", c>>
S(s) == <<"string", s>>

RECURSIVE JoinComma(_)
JoinComma(parts) ==
    IF parts = <<>> THEN <<>>
    ELSE IF Len(parts) = 1 THEN Head(parts)
    ELSE Head(parts) \o <<P(",")>> \o JoinComma(Tail(parts))

DumpStrList(l) ==
    <<P("[")>> \o JoinComma([k \in 1..Len(l) |-> <<S(l[k])>>]) \o <<P("]")>>

DumpQuestion(q) ==
    <<P("{"), S("question"), P(":"), S(q.question), P(","), S("options"), P(":")>>
        \o DumpStrList(q.options) \o <<P("}")>>

\* json.dump(data, f, indent=2), line 50
json_dump(data) ==
    <<P("[")>> \o JoinComma([k \in 1..Len(data) |-> DumpQuestion(data[k])]) \o <<P("]")>>

RECURSIVE ParseValue(_)
RECURSIVE ParseElems(_, _)
RECURSIVE ParseMembers(_, _)

ParseValue(toks) ==
    IF Head(toks)[1] = "string" THEN [val |-> Head(toks)[2], rest |-> Tail(toks)]
    ELSE IF Head(toks) = P("[") THEN ParseElems(Tail(toks), <<>>)
    ELSE ParseMembers(Tail(toks), <<>>)

ParseElems(toks, acc) ==
    IF Head(toks) = P("]") THEN [val |-> acc, rest |-> Tail(toks)]
    ELSE IF Head(toks) = P(",") THEN ParseElems(Tail(toks), acc)
    ELSE LET r == ParseValue(toks) IN ParseElems(r.rest, Append(acc, r.val))

ParseMembers(toks, acc) ==
    IF Head(toks) = P("}") THEN [val |-> acc, rest |-> Tail(toks)]
    ELSE IF Head(toks) = P(",") THEN ParseMembers(Tail(toks), acc)
    ELSE LET key == Head(toks)[2]
             r == ParseValue(Tail(Tail(toks)))
         IN  ParseMembers(r.rest,
                 [k \in DOMAIN acc \cup {key} |-> IF k = key THEN r.val ELSE acc[k]])

\* json.load(f), line 54
json_load(text) == ParseValue(text).val

(***************************************************************************)
(* Template store, lines 42-57                                             *)
(***************************************************************************)
\* a path builder that drops an extension the name already carries
TemplatePath_StripExt(name) == Replace(name, DotJson, <<>>) \o DotJson

\* os.path.join(TEMPLATE_DIR, f"{name}.json"): the file's name in the directory
TemplatePath(name) == name \o DotJson

\* os.listdir(TEMPLATE_DIR)
listdir == DOMAIN files

\* line 45-46; os.listdir gives no order, so the list is modelled by its members
list_templates(dir) == { Replace(f, DotJson, <<>>) : f \in { g \in dir : EndsWith(g, DotJson) } }

\* the directory after open(path, "w") and json.dump, line 48-50
save_template(dir, name, data) ==
    [f \in DOMAIN dir \cup {TemplatePath(name)} |->
        IF f = TemplatePath(name) THEN json_dump(data) ELSE dir[f]]

\* line 52-54: open(path, "r") raises FileNotFoundError when the file is missing
load_template(dir, name) ==
    IF TemplatePath(name) \in DOMAIN dir
    THEN [outcome |-> "ok", value |-> json_load(dir[TemplatePath(name)])]
    ELSE [outcome |-> "FileNotFoundError", value |-> <<>>]

\* line 56-57: os.remove raises FileNotFoundError when the file is missing
delete_template(dir, name) ==
    IF TemplatePath(name) \in DOMAIN dir
    THEN [outcome |-> "ok",
          dir |-> [f \in DOMAIN dir \ {TemplatePath(name)} |-> dir[f]]]
    ELSE [outcome |-> "FileNotFoundError", dir |-> dir]

NoRet == [op |-> "none", name |-> <<>>, outcome |-> "ok", value |-> <<>>, names |-> {}]
NoOp == [kind |-> "none", data |-> <<>>]

EngineIdle ==
    /\ USE_REAL_AI = FALSE
    /\ DEEPSEEK_API_KEY = ""
    /\ task_template = <<>>
    /\ pc = "idle"
    /\ qi = 0
    /\ suggestions = <<>>
    /\ calls = <<>>
    /\ responses = <<>>
    /\ picks = <<>>
    /\ st_error = FALSE
    /\ outcome = [kind |-> "none", value |-> <<>>, error |-> ""]

SessionIdle ==
    /\ session_state = [present |-> FALSE, ai_suggestions |-> <<>>]
    /\ selected_template_for_task = <<>>
    /\ guideline_text = ""
    /\ user_text = ""
    /\ rendered = [shown |-> FALSE, keys |-> <<>>]

\* after os.makedirs(TEMPLATE_DIR, exist_ok=True) on a fresh directory, line 43
InitStore ==
    /\ files = <<>>
    /\ lastOp = [n \in Names |-> NoOp]
    /\ ret = NoRet
    /\ EngineIdle
    /\ SessionIdle

SaveTemplate(name, data) ==
    /\ files' = save_template(files, name, data)
    /\ lastOp' = [lastOp EXCEPT ![name] = [kind |-> "save", data |-> data]]
    /\ ret' = [op |-> "save", name |-> name, outcome |-> "ok", value |-> <<>>, names |-> {}]
    /\ UNCHANGED <<engineVars, sessionVars>>

LoadTemplate(name) ==
    /\ ret' = [op |-> "load", name |-> name,
               outcome |-> load_template(files, name).outcome,
               value |-> load_template(files, name).value, names |-> {}]
    /\ UNCHANGED <<files, lastOp, engineVars, sessionVars>>

DeleteTemplate(name) ==
    LET r == delete_template(files, name)
    IN  /\ files' = r.dir
        /\ lastOp' = [lastOp EXCEPT ![name] =
                         [kind |-> IF r.outcome = "ok" THEN "delete" ELSE "delete_failed",
                          data |-> <<>>]]
        /\ ret' = [op |-> "delete", name |-> name, outcome |-> r.outcome, value |-> <<>>,
                   names |-> {}]
        /\ UNCHANGED <<engineVars, sessionVars>>

ListTemplates ==
    /\ ret' = [op |-> "list", name |-> <<>>, outcome |-> "ok", value |-> <<>>,
               names |-> list_templates(listdir)]
    /\ UNCHANGED <<files, lastOp, engineVars, sessionVars>>

NextStore ==
    \/ \E name \in Names, data \in StoreTemplates : SaveTemplate(name, data)
    \/ \E name \in Names : LoadTemplate(name)
    \/ \E name \in Names : DeleteTemplate(name)
    \/ ListTemplates

SpecStore == InitStore /\ [][NextStore]_vars

(***************************************************************************)
(* Suggestion engine, lines 59-125                                         *)
(***************************************************************************)
\* the text the remote model may reply with, as pieces (whitespace pieces apart)
Completions ==
    { <<"Option: Yes", "\n", "Reason: ok">>,
      <<" ", "Option: No", "\n", "Reason: why", "\n">> }

\* what requests.post and resp.json() can come back with for one question
Responses ==
    [kind : {"completion"}, status : {200}, text : Completions]
        \cup [kind : {"http_error"}, status : {429, 500}, text : {<<"busy">>}]
        \cup [kind : {"network"}, status : {0}, text : {<<"timed out">>}]
        \cup [kind : {"not_json"}, status : {200}, text : {<<"<html>">>}]
        \cup [kind : {"no_choices"}, status : {200}, text : {<<"{}">>}]

Credentials == {"", "sk-key"}

\* line 117
MockReason == "This is a mock reason explaining why this option could be chosen."

\* line 118
MockAnswer(choice) == "Option: " \o choice \o "\nReason: " \o MockReason

\* suggestions[k] = v on a dict kept in insertion order, lines 108 and 118
DictSet(d, k, v) ==
    IF \E j \in 1..Len(d) : d[j][1] = k
    THEN [j \in 1..Len(d) |-> IF d[j][1] = k THEN <<k, v>> ELSE d[j]]
    ELSE Append(d, <<k, v>>)

\* a reply handler that raises on a status other than 200
AnswerOf_RaiseForStatus(resp, jsonErrorCaught) ==
    CASE resp.kind = "completion" ->
            [raised |-> "none", answer |-> Join(Strip(resp.text))]
      [] resp.kind = "http_error" -> [raised |-> "HTTPError", answer |-> ""]
      [] resp.kind = "network" ->
            [raised |-> "none", answer |-> "Request Exception: " \o Join(resp.text)]
      [] resp.kind = "not_json" ->
            IF jsonErrorCaught
            THEN [raised |-> "none", answer |-> "Request Exception: " \o Join(resp.text)]
            ELSE [raised |-> "JSONDecodeError", answer |-> ""]
      [] resp.kind = "no_choices" -> [raised |-> "KeyError", answer |-> ""]

\* lines 99-106: the answer for one question, or the exception that leaves the
\* try block.  resp.json() on a body that is not JSON raises JSONDecodeError,
\* which is a RequestException only in newer releases of requests
\* (jsonErrorCaught); a JSON body without choices[0].message.content raises
\* KeyError, which the except clause does not name.
AnswerOf(resp, jsonErrorCaught) ==
    CASE resp.kind = "completion" ->
            [raised |-> "none", answer |-> Join(Strip(resp.text))]
      [] resp.kind = "http_error" ->
            [raised |-> "none",
             answer |-> "Error " \o ToString(resp.status) \o ": " \o Join(resp.text)]
      [] resp.kind = "network" ->
            [raised |-> "none", answer |-> "Request Exception: " \o Join(resp.text)]
      [] resp.kind = "not_json" ->
            IF jsonErrorCaught
            THEN [raised |-> "none", answer |-> "Request Exception: " \o Join(resp.text)]
            ELSE [raised |-> "JSONDecodeError", answer |-> ""]
      [] resp.kind = "no_choices" -> [raised |-> "KeyError", answer |-> ""]

\* a credential check that lets an unset key through
HasCredential_Always(key) == TRUE

\* line 63: if not DEEPSEEK_API_KEY
HasCredential(key) == key # ""

\* a choice that falls back to the empty string on an empty list
RandomChoices_Default(options) ==
    IF options = <<>> THEN {""} ELSE { options[c] : c \in 1..Len(options) }

\* line 116: what random.choice(options) can return; none on an empty list,
\* where it raises IndexError
RandomChoices(options) == { options[c] : c \in 1..Len(options) }

InitEngine ==
    /\ files = <<>>
    /\ lastOp = [n \in Names |-> NoOp]
    /\ ret = NoRet
    /\ USE_REAL_AI \in BOOLEAN
    /\ DEEPSEEK_API_KEY \in Credentials
    /\ task_template \in Templates
    /\ pc = "idle"
    /\ qi = 0
    /\ suggestions = <<>>
    /\ calls = <<>>
    /\ responses = <<>>
    /\ picks = <<>>
    /\ st_error = FALSE
    /\ outcome = [kind |-> "none", value |-> <<>>, error |-> ""]
    /\ SessionIdle

\* lines 121-125, and 62-65 when the remote strategy is chosen
Call ==
    /\ pc = "idle"
    /\ \/ /\ USE_REAL_AI
          /\ ~HasCredential(DEEPSEEK_API_KEY)
          /\ st_error' = TRUE
          /\ outcome' = [kind |-> "returned", value |-> <<>>, error |-> ""]
          /\ pc' = "done"
          /\ qi' = qi
       \/ /\ USE_REAL_AI
          /\ HasCredential(DEEPSEEK_API_KEY)
          /\ pc' = "remote_loop"
          /\ qi' = 1
          /\ UNCHANGED <<st_error, outcome>>
       \/ /\ ~USE_REAL_AI
          /\ pc' = "mock_loop"
          /\ qi' = 1
          /\ UNCHANGED <<st_error, outcome>>
    /\ UNCHANGED <<USE_REAL_AI, DEEPSEEK_API_KEY, task_template, suggestions, calls,
                   responses, picks, storeVars, sessionVars>>

\* line 100: requests.post is entered for question qi
RemoteSend ==
    /\ pc = "remote_loop"
    /\ qi <= Len(task_template)
    /\ calls' = Append(calls, <<"start", qi>>)
    /\ pc' = "remote_wait"
    /\ UNCHANGED <<USE_REAL_AI, DEEPSEEK_API_KEY, task_template, qi, suggestions,
                   responses, picks, st_error, outcome, storeVars, sessionVars>>

\* lines 100-108: the request ends and its answer is stored, or an exception
\* leaves the function
RemoteReceive(resp, jsonErrorCaught) ==
    /\ pc = "remote_wait"
    /\ calls' = Append(calls, <<"end", qi>>)
    /\ responses' = Append(responses, resp)
    /\ LET a == AnswerOf(resp, jsonErrorCaught)
       IN  \/ /\ a.raised = "none"
              /\ suggestions' = DictSet(suggestions, task_template[qi].question, a.answer)
              /\ qi' = qi + 1
              /\ pc' = "remote_loop"
              /\ outcome' = outcome
           \/ /\ a.raised # "none"
              /\ outcome' = [kind |-> "raised", value |-> <<>>, error |-> a.raised]
              /\ pc' = "done"
              /\ UNCHANGED <<suggestions, qi>>
    /\ UNCHANGED <<USE_REAL_AI, DEEPSEEK_API_KEY, task_template, picks, st_error,
                   storeVars, sessionVars>>

\* line 110
RemoteReturn ==
    /\ pc = "remote_loop"
    /\ qi > Len(task_template)
    /\ outcome' = [kind |-> "returned", value |-> suggestions, error |-> ""]
    /\ pc' = "done"
    /\ UNCHANGED <<USE_REAL_AI, DEEPSEEK_API_KEY, task_template, qi, suggestions, calls,
                   responses, picks, st_error, storeVars, sessionVars>>

\* lines 115-118: one turn of the mock loop
MockStep ==
    /\ pc = "mock_loop"
    /\ qi <= Len(task_template)
    /\ \/ /\ RandomChoices(task_template[qi].options) = {}
          /\ outcome' = [kind |-> "raised", value |-> <<>>, error |-> "IndexError"]
          /\ pc' = "done"
          /\ UNCHANGED <<suggestions, picks, qi>>
       \/ \E choice \in RandomChoices(task_template[qi].options) :
          /\ picks' = Append(picks, choice)
          /\ suggestions' = DictSet(suggestions, task_template[qi].question,
                                    MockAnswer(choice))
          /\ qi' = qi + 1
          /\ UNCHANGED <<pc, outcome>>
    /\ UNCHANGED <<USE_REAL_AI, DEEPSEEK_API_KEY, task_template, calls, responses,
                   st_error, storeVars, sessionVars>>

\* line 119
MockReturn ==
    /\ pc = "mock_loop"
    /\ qi > Len(task_template)
    /\ outcome' = [kind |-> "returned", value |-> suggestions, error |-> ""]
    /\ pc' = "done"
    /\ UNCHANGED <<USE_REAL_AI, DEEPSEEK_API_KEY, task_template, qi, suggestions, calls,
                   responses, picks, st_error, storeVars, sessionVars>>

NextEngine ==
    \/ Call
    \/ RemoteSend
    \/ \E resp \in Responses : RemoteReceive(resp, TRUE)
    \/ \E resp \in { r \in Responses : r.kind = "not_json" } : RemoteReceive(resp, FALSE)
    \/ RemoteReturn
    \/ MockStep
    \/ MockReturn

SpecEngine == InitEngine /\ [][NextEngine]_vars

(***************************************************************************)
(* Session flow, lines 130-227.  Streamlit runs the whole script again on  *)
(* every interaction; widget values and st.session_state survive the run.  *)
(***************************************************************************)
\* template names typed in the session; none contains ".json" or a separator, so
\* every listed name has its file
SessionNames == { <<"a">>, <<"b">> }

\* what the session's user types as options
SessionOptionInputs == { <<>>, <<"Yes", ",", " ", "No">> }

\* the Create flow's questions: number_input has min_value=1 (line 155)
SessionTemplates ==
    { t \in StoreTemplates :
        /\ Len(t) >= 1
        /\ \A k \in 1..Len(t) :
              t[k].options \in { ParseOptions(o) : o \in SessionOptionInputs } }

\* what Step 1 extracts from the uploaded guideline; "" with nothing uploaded
GuidelineTexts == {"", "Rubric v1"}

UserTexts == {"", "essay"}

NotRendered == [shown |-> FALSE, keys |-> <<>>]

\* the keys of a dict in insertion order
Keys(d) == [j \in 1..Len(d) |-> d[j][1]]

\* line 208: selected_template_for_task and guideline_text and user_text
Step4Ready(sel, g, u) == sel # <<>> /\ g # "" /\ u # ""

\* lines 208-227 in a run where the Generate button was not pressed: the stored
\* suggestions are drawn whenever the three inputs are present and the template
\* loads (line 209 raises otherwise and the run ends)
Step4Render(dir, sel, g, u, ss) ==
    IF Step4Ready(sel, g, u) /\ load_template(dir, sel).outcome = "ok" /\ ss.present
    THEN [shown |-> TRUE, keys |-> Keys(ss.ai_suggestions)]
    ELSE NotRendered

\* line 196-197: the selectbox keeps its value while its options are the same;
\* with new options it falls back to the first of os.listdir's order, None if empty
Reselect(dirBefore, dirAfter, sel) ==
    IF list_templates(DOMAIN dirAfter) = {} THEN {<<>>}
    ELSE IF list_templates(DOMAIN dirAfter) = list_templates(DOMAIN dirBefore)
              /\ sel \in list_templates(DOMAIN dirAfter)
         THEN {sel}
         ELSE list_templates(DOMAIN dirAfter)

InitSession ==
    /\ files = <<>>
    /\ lastOp = [n \in Names |-> NoOp]
    /\ ret = NoRet
    /\ USE_REAL_AI = FALSE
    /\ DEEPSEEK_API_KEY \in Credentials
    /\ task_template = <<>>
    /\ pc = "ready"
    /\ qi = 0
    /\ suggestions = <<>>
    /\ calls = <<>>
    /\ responses = <<>>
    /\ picks = <<>>
    /\ st_error = FALSE
    /\ outcome = [kind |-> "none", value |-> <<>>, error |-> ""]
    /\ SessionIdle

\* a run of the script that changes the directory and the widget values and does
\* not press Generate
Rerun(dir, sel, g, u) ==
    /\ pc = "ready"
    /\ files' = dir
    /\ selected_template_for_task' = sel
    /\ guideline_text' = g
    /\ user_text' = u
    /\ rendered' = Step4Render(dir, sel, g, u, session_state)
    /\ UNCHANGED <<lastOp, ret, session_state, DEEPSEEK_API_KEY, task_template, pc, qi,
                   suggestions, calls, responses, picks, st_error, outcome>>

\* Step 1, lines 132-145: a guideline is uploaded or removed
SetGuideline(g) ==
    /\ g # guideline_text
    /\ Rerun(files, selected_template_for_task, g, user_text)
    /\ UNCHANGED USE_REAL_AI

\* line 195
SetUserText(u) ==
    /\ u # user_text
    /\ Rerun(files, selected_template_for_task, guideline_text, u)
    /\ UNCHANGED USE_REAL_AI

\* line 197: the user picks another template for the task
SelectTemplate(name) ==
    /\ name \in list_templates(listdir)
    /\ name # selected_template_for_task
    /\ Rerun(files, name, guideline_text, user_text)
    /\ UNCHANGED USE_REAL_AI

\* line 13
ToggleRealAI ==
    /\ USE_REAL_AI' = ~USE_REAL_AI
    /\ Rerun(files, selected_template_for_task, guideline_text, user_text)

\* lines 151-167: Save Template with a name and at least one question
ClickSave(name, questions) ==
    /\ name # <<>> /\ questions # <<>>
    /\ \E sel \in Reselect(files, save_template(files, name, questions),
                           selected_template_for_task) :
          Rerun(save_template(files, name, questions), sel, guideline_text, user_text)
    /\ UNCHANGED USE_REAL_AI

\* lines 182-188: Delete on a listed template
ClickDelete(name) ==
    /\ name \in list_templates(listdir)
    /\ delete_template(files, name).outcome = "ok"
    /\ \E sel \in Reselect(files, delete_template(files, name).dir,
                           selected_template_for_task) :
          Rerun(delete_template(files, name).dir, sel, guideline_text, user_text)
    /\ UNCHANGED USE_REAL_AI

\* lines 208-212: Generate is pressed; the template is loaded and
\* get_ai_suggestions is entered
ClickGenerate ==
    /\ pc = "ready"
    /\ Step4Ready(selected_template_for_task, guideline_text, user_text)
    /\ load_template(files, selected_template_for_task).outcome = "ok"
    /\ task_template' = load_template(files, selected_template_for_task).value
    /\ pc' = "idle"
    /\ qi' = 0
    /\ suggestions' = <<>>
    /\ calls' = <<>>
    /\ responses' = <<>>
    /\ picks' = <<>>
    /\ st_error' = FALSE
    /\ outcome' = [kind |-> "none", value |-> <<>>, error |-> ""]
    /\ rendered' = NotRendered
    /\ UNCHANGED <<storeVars, USE_REAL_AI, DEEPSEEK_API_KEY, session_state,
                   selected_template_for_task, guideline_text, user_text>>

\* lines 213-225: the call is over; its result is stored and drawn, or its
\* exception ends the run with the stored value untouched.  The locals of the
\* call are gone when the run ends.
FinishGenerate ==
    /\ pc = "done"
    /\ pc' = "ready"
    /\ \/ /\ outcome.kind = "returned"
          /\ session_state' = [present |-> TRUE, ai_suggestions |-> outcome.value]
          /\ rendered' = [shown |-> TRUE, keys |-> Keys(outcome.value)]
       \/ /\ outcome.kind = "raised"
          /\ UNCHANGED <<session_state, rendered>>
    /\ task_template' = <<>>
    /\ qi' = 0
    /\ suggestions' = <<>>
    /\ calls' = <<>>
    /\ responses' = <<>>
    /\ picks' = <<>>
    /\ st_error' = FALSE
    /\ outcome' = [kind |-> "none", value |-> <<>>, error |-> ""]
    /\ UNCHANGED <<storeVars, USE_REAL_AI, DEEPSEEK_API_KEY,
                   selected_template_for_task, guideline_text, user_text>>

NextSession ==
    \/ \E g \in GuidelineTexts : SetGuideline(g)
    \/ \E u \in UserTexts : SetUserText(u)
    \/ \E name \in SessionNames : SelectTemplate(name)
    \/ ToggleRealAI
    \/ \E name \in SessionNames, questions \in SessionTemplates : ClickSave(name, questions)
    \/ \E name \in SessionNames : ClickDelete(name)
    \/ ClickGenerate
    \/ Call
    \/ RemoteSend
    \/ \E resp \in Responses : RemoteReceive(resp, TRUE)
    \/ \E resp \in { r \in Responses : r.kind = "not_json" } : RemoteReceive(resp, FALSE)
    \/ RemoteReturn
    \/ MockStep
    \/ MockReturn
    \/ FinishGenerate

SpecSession == InitSession /\ [][NextSession]_vars

C2_Deletion ==
    [][ /\ \A n \in Names :
              lastOp'[n].kind = "delete" =>
                  /\ load_template(files', n).outcome = "FileNotFoundError"
                  /\ n \notin list_templates(DOMAIN files')
        /\ (ret'.op = "delete" /\ TemplatePath(ret'.name) \notin DOMAIN files) =>
              /\ ret'.outcome = "FileNotFoundError"
              /\ files' = files ]_vars

(***************************************************************************)
(* Suggestion engine properties                                            *)
(***************************************************************************)
RemoteWithKey == USE_REAL_AI /\ HasCredential(DEEPSEEK_API_KEY)

DistinctTexts(t) ==
    \A j, k \in 1..Len(t) : j # k => t[j].question # t[k].question

\* C3: with no credential configured, the remote strategy shows the missing
\* credential error, returns no suggestions whatever the template, and never
\* enters requests.post.
C3_CredentialGate ==
    (USE_REAL_AI /\ DEEPSEEK_API_KEY = "") =>
        /\ calls = <<>>
        /\ pc \in {"idle", "done"}
        /\ pc = "done" =>
              /\ st_error
              /\ outcome = [kind |-> "returned", value |-> <<>>, error |-> ""]

\* the remote strategy was invoked without a credential on a two-question template
C3_Witness ==
    /\ USE_REAL_AI
    /\ DEEPSEEK_API_KEY = ""
    /\ pc = "done"
    /\ Len(task_template) = 2

\* the entry the claim expects for a finished request, the completion text taken
\* as received (received = TRUE) or with surrounding whitespace removed
C4_Expected(resp, received) ==
    CASE resp.kind = "completion" ->
            IF received THEN Join(resp.text) ELSE Join(Strip(resp.text))
      [] resp.kind = "http_error" ->
            "Error " \o ToString(resp.status) \o ": " \o Join(resp.text)
      [] OTHER -> "Request Exception: " \o Join(resp.text)

C4_Isolation(received) ==
    (RemoteWithKey /\ DistinctTexts(task_template) /\ pc = "done"
       /\ \A k \in 1..Len(responses) :
             responses[k].kind \in {"completion", "http_error", "network"}) =>
        /\ outcome.kind = "returned"
        /\ Len(outcome.value) = Len(task_template)
        /\ \A k \in 1..Len(task_template) :
              outcome.value[k] =
                  <<task_template[k].question, C4_Expected(responses[k], received)>>

C5_Cardinality ==
    (pc = "done" /\ outcome.kind = "returned" /\ ~st_error) =>
        /\ Len(outcome.value) = Len(task_template)
        /\ \A k \in 1..Len(task_template) :
              outcome.value[k][1] = task_template[k].question

\* C6: for a non-empty template whose questions all have at least one option, the
\* mock strategy returns, for each question, an entry whose chosen option is one of
\* that question's own options and whose reason is the fixed placeholder, and makes
\* no request.
C6_MockTotality ==
    (~USE_REAL_AI /\ pc = "done" /\ Len(task_template) >= 1
       /\ \A k \in 1..Len(task_template) : task_template[k].options # <<>>) =>
        /\ outcome.kind = "returned"
        /\ calls = <<>>
        /\ \A k \in 1..Len(task_template) :
              \E j \in 1..Len(outcome.value) :
                 /\ outcome.value[j][1] = task_template[k].question
                 /\ \E c \in 1..Len(task_template[k].options) :
                       outcome.value[j][2] = MockAnswer(task_template[k].options[c])

\* C7: when some question of the template has no options, the mock strategy ends
\* with IndexError and returns nothing; no choice it made is outside the options
\* of the question it was made for.
C7_MockFailure ==
    (~USE_REAL_AI /\ \E k \in 1..Len(task_template) : task_template[k].options = <<>>) =>
        /\ pc = "done" => outcome = [kind |-> "raised", value |-> <<>>, error |-> "IndexError"]
        /\ Len(picks) <= Len(task_template)
        /\ \A j \in 1..Len(picks) :
              \E c \in 1..Len(task_template[j].options) :
                 picks[j] = task_template[j].options[c]

\* the mock strategy failed at the second question after choosing for the first
C7_Witness ==
    /\ ~USE_REAL_AI
    /\ pc = "done"
    /\ outcome.kind = "raised"
    /\ Len(picks) = 1
    /\ task_template[2].options = <<>>

\* the request log is start 1, end 1, start 2, end 2, ...
C8_InOrderNoOverlap ==
    \A j \in 1..Len(calls) :
        calls[j] = <<IF j % 2 = 1 THEN "start" ELSE "end", (j + 1) \div 2>>

\* C8: with a credential, the remote strategy issues one request per question in
\* template order, each starting only after the previous one ended, none issued
\* twice, and the number of requests equals the number of questions.
C8_Sequencing ==
    RemoteWithKey =>
        /\ C8_InOrderNoOverlap
        /\ pc = "done" =>
              Cardinality({ j \in 1..Len(calls) : calls[j][1] = "start" })
                  = Len(task_template)

\* C9: once the credential check has passed, no outcome of a request makes an
\* exception leave get_ai_suggestions_openrouter; the call returns.
C9_NeverAborts ==
    (RemoteWithKey /\ pc = "done") => outcome.kind = "returned"

(***************************************************************************)
(* Session properties                                                      *)
(***************************************************************************)
\* the question texts of the template now selected for the task
CurrentQuestionTexts ==
    LET r == load_template(files, selected_template_for_task)
    IN  IF r.outcome = "ok" THEN { r.value[k].question : k \in 1..Len(r.value) } ELSE {}

\* C10: whenever Step 4 draws the stored suggestions, their keys are question
\* texts of the template currently selected for the task.
C10_DisplayedMatchCurrent ==
    rendered.shown =>
        \A j \in 1..Len(rendered.keys) : rendered.keys[j] \in CurrentQuestionTexts

=============================================================================
